---- MODULE Spec2Model ----
(***************************************************************************)
(* Model of src/src/ssfinetuning/default_args.py: the dataset encoder      *)
(* `encode` and the argument-profile builder `DefaultArgs`.                *)
(*                                                                         *)
(* Python dictionaries are functions from key strings to values.  Profile  *)
(* values (strings, numbers, flags, np.inf) are written as strings, so     *)
(* that a profile is a function from STRING to STRING.  The values of the  *)
(* caller's kwargs are objects of different Python types; each is a record *)
(* [type, items, atom]: a dict has type "dict" and its entries in items,   *)
(* a tokenizer has type "tokenizer" and its construction parameters in     *)
(* items, any other object has its name in atom.                           *)
(*                                                                         *)
(* AutoTokenizer.from_pretrained is the one external call whose failure    *)
(* the source itself provides for (the try/except of encode); each call of *)
(* it may succeed or raise, and the outcomes of the successive calls made  *)
(* by one encode are an input of the operation (load_outcomes).  The other *)
(* library calls (load_metric, Dataset.map, TrainingArguments,             *)
(* warnings.warn under the default filter) are taken to return.            *)
(***************************************************************************)
EXTENDS Naturals, Sequences, FiniteSets, TLC

VARIABLES
    kwargs_args_sup,  \* self.kwargs_args_sup: the supervised profile
    kwargs_args,      \* self.kwargs_args: the semisupervised profile
    kwargs,           \* the caller's kwargs dict as the last operation left it (empty when it took none)
    call,             \* the last operation, its arguments and the two profiles when it was called
    result,           \* what the last operation did: outcome, return value, warnings, encoder and loader calls
    history           \* one record per set_default_args call so far, in call order

vars == <<kwargs_args_sup, kwargs_args, kwargs, call, result, history>>

\* Number of set_default_args calls made on the one DefaultArgs instance.
MaxCalls == 2

-----------------------------------------------------------------------------
(* Python values *)

EmptyDict == [k \in {} |-> ""]

Obj(name) == [type |-> "object", items |-> EmptyDict, atom |-> name]

Dict(d) == [type |-> "dict", items |-> d, atom |-> ""]

\* isinstance(v, dict)
IsDict(v) == v.type = "dict"

\* dict.update: d with the entries of o replaced or added.
Update(d, o) ==
    [k \in (DOMAIN d) \cup (DOMAIN o) |-> IF k \in DOMAIN o THEN o[k] ELSE d[k]]

\* d[k] = v
SetItem(d, k, v) ==
    [j \in (DOMAIN d) \cup {k} |-> IF j = k THEN v ELSE d[j]]

\* del d[k] / the dict left by d.pop(k, default)
DelItem(d, k) == [j \in (DOMAIN d) \ {k} |-> d[j]]

\* the value returned by d.pop(k, default)
Pop(d, k, default) == IF k \in DOMAIN d THEN d[k] ELSE default

-----------------------------------------------------------------------------
(* encode *)

FallbackModel == "cardiffnlp/twitter-xlm-roberta-base-sentiment"

\* AutoTokenizer.from_pretrained(model_name, use_fast=True)
FastTokenizer(model_name) ==
    [type |-> "tokenizer",
     items |-> [pretrained |-> model_name, use_fast |-> "True"],
     atom |-> ""]

\* AutoTokenizer.from_pretrained(FallbackModel, model_max_length=512)
FallbackTokenizer ==
    [type |-> "tokenizer",
     items |-> [pretrained |-> FallbackModel, model_max_length |-> "512"],
     atom |-> ""]

\* A dataset that has not been mapped.
RawDataset(name) ==
    [name |-> name, bound |-> TRUE, mapped |-> FALSE,
     tokenizer |-> EmptyDict, column |-> "", truncation |-> FALSE, batched |-> FALSE]

\* dataset.map(preprocess_function, batched=True) with
\* preprocess_function = tokenizer(examples[text_column_name], truncation=True)
MapDataset(dataset, tokenizer, text_column_name) ==
    [name |-> dataset.name, bound |-> TRUE, mapped |-> TRUE,
     tokenizer |-> tokenizer.items, column |-> text_column_name,
     truncation |-> TRUE, batched |-> TRUE]

\* The local variable encoded_dataset of set_default_args before any assignment.
Unbound ==
    [name |-> "", bound |-> FALSE, mapped |-> FALSE,
     tokenizer |-> EmptyDict, column |-> "", truncation |-> FALSE, batched |-> FALSE]

NoTokenizer == [type |-> "none", items |-> EmptyDict, atom |-> ""]

\* The from_pretrained calls one encode makes, in order, each with its arguments
\* and whether it returned: a second one is made only in the except clause, that
\* is when the first raised.
EncodeLoads(model_name, load_outcomes) ==
    IF load_outcomes[1]
    THEN << [pretrained |-> model_name, use_fast |-> "True",
             model_max_length |-> "", returned |-> TRUE] >>
    ELSE << [pretrained |-> model_name, use_fast |-> "True",
             model_max_length |-> "", returned |-> FALSE],
            [pretrained |-> FallbackModel, use_fast |-> "",
             model_max_length |-> "512", returned |-> load_outcomes[2]] >>

\* Variant of Encode without the try/except: a failure of the first load leaves
\* encode.
EncodeWithoutFallback(dataset, model_name, text_column_name, load_outcomes) ==
    [raised |-> ~load_outcomes[1],
     encoded_dataset |-> IF ~load_outcomes[1] THEN Unbound
                         ELSE MapDataset(dataset, FastTokenizer(model_name),
                                         text_column_name),
     tokenizer |-> IF ~load_outcomes[1] THEN NoTokenizer ELSE FastTokenizer(model_name),
     loads |-> << [pretrained |-> model_name, use_fast |-> "True",
                   model_max_length |-> "", returned |-> load_outcomes[1]] >>]

\* encode(dataset, model_name, text_column_name).  load_outcomes[i] tells whether
\* the i-th from_pretrained call returns.  An exception raised inside the except
\* clause is not caught and leaves encode.
Encode(dataset, model_name, text_column_name, load_outcomes) ==
    LET tokenizer == IF load_outcomes[1] THEN FastTokenizer(model_name)
                     ELSE FallbackTokenizer
        raised == ~load_outcomes[1] /\ ~load_outcomes[2]
    IN  [raised |-> raised,
         encoded_dataset |-> IF raised THEN Unbound
                             ELSE MapDataset(dataset, tokenizer, text_column_name),
         tokenizer |-> IF raised THEN NoTokenizer ELSE tokenizer,
         loads |-> EncodeLoads(model_name, load_outcomes)]

-----------------------------------------------------------------------------
(* DefaultArgs.__init__ *)

InitSup ==
    [output_dir |-> "glue",
     evaluation_strategy |-> "epoch",
     learning_rate |-> "2e-5",
     per_device_train_batch_size |-> "16",
     per_device_eval_batch_size |-> "16",
     num_train_epochs |-> "10",
     weight_decay |-> "0.01",
     metric_for_best_model |-> "matthews_correlation",
     load_best_model_at_end |-> "True",
     disable_tqdm |-> "True",
     no_cuda |-> "True"]

\* Variant of InitFull: the copy without the save_steps entry.
InitFullWithoutSaveSteps == InitSup

\* self.kwargs_args = self.kwargs_args_sup.copy(); self.kwargs_args['save_steps'] = np.inf
InitFull == SetItem(InitSup, "save_steps", "inf")

-----------------------------------------------------------------------------
(* DefaultArgs.set_default_args *)

\* Parameter names of transformers.Trainer.__init__.
TrainerParams ==
    {"model", "args", "data_collator", "train_dataset", "eval_dataset",
     "tokenizer", "model_init", "compute_metrics", "callbacks", "optimizers"}

\* extract_keys(Trainer, kwargs) of dataset_utils: the entries of kwargs whose
\* keys the callable accepts (kwargs_trn); the other entries stay in kwargs.
ExtractKeys(params, kw) ==
    [kwargs_trn |-> [k \in (DOMAIN kw) \cap params |-> kw[k]],
     kwargs |-> [k \in (DOMAIN kw) \ params |-> kw[k]]]

\* get_default_cm(): the compute_metrics closure over the loaded glue/cola metric.
DefaultComputeMetrics == Obj("compute_metrics(glue/cola)")

TokenizerWarning ==
    "tokenizer found. If using tokenizer, please use the encoded dataset. Like done using~set_default_args.encode()"

\* Variant of MergeOverride: the override replaces the profile instead of
\* updating it.
MergeOverrideReplaces(profile, kw, key) ==
    IF key \in DOMAIN kw /\ IsDict(kw[key])
    THEN [profile |-> kw[key].items, kwargs |-> DelItem(kw, key)]
    ELSE [profile |-> profile, kwargs |-> kw]

\* Variant of MergeOverride: a call without the key puts the profile back to
\* its defaults.
MergeOverrideResetsWhenAbsent(profile, kw, key) ==
    IF key \in DOMAIN kw /\ IsDict(kw[key])
    THEN [profile |-> Update(profile, kw[key].items), kwargs |-> DelItem(kw, key)]
    ELSE IF key \notin DOMAIN kw
    THEN [profile |-> IF key = "args_ta_sup" THEN InitSup ELSE InitFull, kwargs |-> kw]
    ELSE [profile |-> profile, kwargs |-> kw]

\* Variant of MergeOverride: the override updates the defaults, not the profile
\* as earlier calls left it.
MergeOverrideOntoDefaults(profile, kw, key) ==
    IF key \in DOMAIN kw /\ IsDict(kw[key])
    THEN [profile |-> Update(IF key = "args_ta_sup" THEN InitSup ELSE InitFull,
                             kw[key].items),
          kwargs |-> DelItem(kw, key)]
    ELSE [profile |-> profile, kwargs |-> kw]

\* Variant of MergeOverride: the key is deleted whatever its value is.
MergeOverrideDropsNonMapping(profile, kw, key) ==
    IF key \in DOMAIN kw
    THEN [profile |-> IF IsDict(kw[key]) THEN Update(profile, kw[key].items)
                      ELSE profile,
          kwargs |-> DelItem(kw, key)]
    ELSE [profile |-> profile, kwargs |-> kw]

\* if key in kwargs.keys(): if isinstance(kwargs[key], dict):
\*     profile.update(kwargs[key]); del kwargs[key]
MergeOverride(profile, kw, key) ==
    IF key \in DOMAIN kw /\ IsDict(kw[key])
    THEN [profile |-> Update(profile, kw[key].items), kwargs |-> DelItem(kw, key)]
    ELSE [profile |-> profile, kwargs |-> kw]

\* Variant of TokenizerStep: encode is called without the text column, so with
\* its default 'sentence'.
TokenizerStepDefaultColumn(dataset, model_name, kwargs_trn, kw, load_outcomes) ==
    IF "tokenizer" \notin DOMAIN kwargs_trn
    THEN LET enc == Encode(dataset, model_name, "sentence", load_outcomes)
         IN  [raised |-> enc.raised,
              kwargs |-> DelItem(kw, "text_column_name"),
              kwargs_trn |-> IF enc.raised THEN kwargs_trn
                             ELSE SetItem(kwargs_trn, "tokenizer", enc.tokenizer),
              encoded_dataset |-> enc.encoded_dataset,
              warnings |-> << >>,
              encode_calls |-> << [dataset |-> dataset, model_name |-> model_name,
                                   text_column_name |-> "sentence"] >>,
              encode_returns |-> IF enc.raised THEN << >>
                                 ELSE << [encoded_dataset |-> enc.encoded_dataset,
                                          tokenizer |-> enc.tokenizer] >>,
              loads |-> enc.loads]
    ELSE [raised |-> FALSE, kwargs |-> kw, kwargs_trn |-> kwargs_trn,
          encoded_dataset |-> Unbound, warnings |-> << TokenizerWarning >>,
          encode_calls |-> << >>, encode_returns |-> << >>, loads |-> << >>]

\* Variant of TokenizerStep: the dataset is encoded, and the tokenizer replaced,
\* also when the caller passed a tokenizer.
TokenizerStepAlwaysEncodes(dataset, model_name, kwargs_trn, kw, load_outcomes) ==
    LET text_column_name == Pop(kw, "text_column_name", Obj("sentence")).atom
        enc == Encode(dataset, model_name, text_column_name, load_outcomes)
    IN  [raised |-> enc.raised,
         kwargs |-> DelItem(kw, "text_column_name"),
         kwargs_trn |-> IF enc.raised THEN kwargs_trn
                        ELSE SetItem(kwargs_trn, "tokenizer", enc.tokenizer),
         encoded_dataset |-> enc.encoded_dataset,
         warnings |-> IF "tokenizer" \in DOMAIN kwargs_trn
                      THEN << TokenizerWarning >> ELSE << >>,
         encode_calls |-> << [dataset |-> dataset, model_name |-> model_name,
                              text_column_name |-> text_column_name] >>,
         encode_returns |-> IF enc.raised THEN << >>
                            ELSE << [encoded_dataset |-> enc.encoded_dataset,
                                     tokenizer |-> enc.tokenizer] >>,
         loads |-> enc.loads]

\* The tokenizer branch of set_default_args.
\* kwargs_trn and kw are the two dicts as they stand when the branch is entered.
TokenizerStep(dataset, model_name, kwargs_trn, kw, load_outcomes) ==
    IF "tokenizer" \notin DOMAIN kwargs_trn
    THEN LET text_column_name == Pop(kw, "text_column_name", Obj("sentence")).atom
             enc == Encode(dataset, model_name, text_column_name, load_outcomes)
         IN  [raised |-> enc.raised,
              kwargs |-> DelItem(kw, "text_column_name"),
              kwargs_trn |-> IF enc.raised THEN kwargs_trn
                             ELSE SetItem(kwargs_trn, "tokenizer", enc.tokenizer),
              encoded_dataset |-> enc.encoded_dataset,
              warnings |-> << >>,
              encode_calls |-> << [dataset |-> dataset, model_name |-> model_name,
                                   text_column_name |-> text_column_name] >>,
              encode_returns |-> IF enc.raised THEN << >>
                                 ELSE << [encoded_dataset |-> enc.encoded_dataset,
                                          tokenizer |-> enc.tokenizer] >>,
              loads |-> enc.loads]
    ELSE [raised |-> FALSE,
          kwargs |-> kw,
          kwargs_trn |-> kwargs_trn,
          encoded_dataset |-> Unbound,
          warnings |-> << TokenizerWarning >>,
          encode_calls |-> << >>,
          encode_returns |-> << >>,
          loads |-> << >>]

\* return encoded_dataset, self.kwargs_args: reading a local variable that was
\* never assigned raises UnboundLocalError.
ReturnOutcome(encoded_dataset) ==
    IF encoded_dataset.bound THEN "returned" ELSE "UnboundLocalError"

\* The whole of set_default_args on profiles sup and full: the profiles and the
\* caller's kwargs as the call leaves them, and what the call did.  An exception
\* raised by encode leaves the call before any override is merged.  The second
\* element returned is the profile object itself, named here by its attribute.
SetDefaultArgs(sup, full, dataset, model_name, kw, load_outcomes) ==
    LET ex == ExtractKeys(TrainerParams, kw)
        trn1 == IF "compute_metrics" \notin DOMAIN ex.kwargs_trn
                THEN SetItem(ex.kwargs_trn, "compute_metrics", DefaultComputeMetrics)
                ELSE ex.kwargs_trn
        tk == TokenizerStep(dataset, model_name, trn1, ex.kwargs, load_outcomes)
        ms == MergeOverride(sup, tk.kwargs, "args_ta_sup")
        mf == MergeOverride(full, ms.kwargs, "args_ta")
        merged == Update(mf.kwargs, tk.kwargs_trn)
        outcome == IF tk.raised THEN "raised" ELSE ReturnOutcome(tk.encoded_dataset)
    IN  [sup |-> IF tk.raised THEN sup ELSE ms.profile,
         full |-> IF tk.raised THEN full ELSE mf.profile,
         kwargs |-> IF tk.raised THEN tk.kwargs ELSE merged,
         outcome |-> outcome,
         dataset |-> IF outcome = "returned" THEN tk.encoded_dataset ELSE Unbound,
         profile |-> IF outcome = "returned" THEN "self.kwargs_args" ELSE "",
         warnings |-> tk.warnings,
         encode_calls |-> tk.encode_calls,
         encode_returns |-> tk.encode_returns,
         loads |-> tk.loads]

-----------------------------------------------------------------------------
(* get_default_ta_sup, get_default_ta *)

\* profile['logging_dir'] = logging_dir
SetLoggingDir(profile, logging_dir) == SetItem(profile, "logging_dir", logging_dir)

\* TrainingArguments(**profile): the keyword arguments the object is built from.
TrainingArguments(profile) == profile

-----------------------------------------------------------------------------
(* Inputs *)

ModelNames == {"albert-base-v2"}

Datasets == {RawDataset("glue")}

TextColumnNames == {"text"}

LoggingDirs == {"logs"}

\* Override mappings a caller passes as args_ta_sup / args_ta.
Overrides ==
    {[learning_rate |-> "1e-4"],
     [learning_rate |-> "3e-5", save_steps |-> "500"]}

\* Values a caller may pass under args_ta_sup / args_ta: a dict, or something else.
OverrideValues == {Dict(o) : o \in Overrides} \cup {Obj("not a dict")}

UserTokenizer ==
    [type |-> "tokenizer", items |-> [pretrained |-> "user/tokenizer"], atom |-> ""]

\* The entries of a call's kwargs other than the profile overrides.
BaseKwargs ==
    {EmptyDict,
     [text_column_name |-> Obj("text")],
     [tokenizer |-> UserTokenizer],
     [tokenizer |-> UserTokenizer, compute_metrics |-> Obj("user_metrics"),
      text_column_name |-> Obj("text")]}

\* The profile overrides of a call's kwargs: each of the two keys absent or
\* holding any of the values.
OverrideKwargs ==
    UNION {[ks -> OverrideValues] : ks \in SUBSET {"args_ta_sup", "args_ta"}}

\* The kwargs dicts of the calls.
KwargsInputs == {Update(b, o) : b \in BaseKwargs, o \in OverrideKwargs}

\* Outcomes of the from_pretrained calls of one encode: the first returns, or it
\* raises and the second returns, or both raise.
LoadOutcomes == {<<TRUE, TRUE>>, <<FALSE, TRUE>>, <<FALSE, FALSE>>}

\* The outcomes to consider for a set_default_args call: a call whose kwargs
\* holds a tokenizer makes no from_pretrained call, so that one choice stands
\* for all.
LoadOutcomesOf(kw) ==
    IF "tokenizer" \in DOMAIN kw THEN {<<TRUE, TRUE>>} ELSE LoadOutcomes

-----------------------------------------------------------------------------
(* The state machine *)

Call(op, dataset, model_name, text_column_name, kw, logging_dir) ==
    [op |-> op, dataset |-> dataset, model_name |-> model_name,
     text_column_name |-> text_column_name, kwargs |-> kw,
     logging_dir |-> logging_dir,
     kwargs_args_sup |-> kwargs_args_sup, kwargs_args |-> kwargs_args]

NoResult ==
    [outcome |-> "returned", dataset |-> Unbound, profile |-> "",
     tokenizer |-> NoTokenizer, warnings |-> << >>, encode_calls |-> << >>,
     encode_returns |-> << >>, loads |-> << >>, arguments |-> EmptyDict]

\* The override mappings (dicts only) a kwargs passes, by key.
GivenOverrides(kw) ==
    [k \in {j \in {"args_ta_sup", "args_ta"} : j \in DOMAIN kw /\ IsDict(kw[j])}
        |-> kw[k].items]

Init ==
    /\ kwargs_args_sup = InitSup
    /\ kwargs_args = InitFull
    /\ kwargs = EmptyDict
    /\ call = [op |-> "__init__", dataset |-> Unbound, model_name |-> "",
               text_column_name |-> "", kwargs |-> EmptyDict, logging_dir |-> "",
               kwargs_args_sup |-> EmptyDict, kwargs_args |-> EmptyDict]
    /\ result = NoResult
    /\ history = << >>

\* A direct call of the module-level function encode.
encode(dataset, model_name, text_column_name, load_outcomes) ==
    /\ \E enc \in {Encode(dataset, model_name, text_column_name, load_outcomes)} :
        /\ call' = Call("encode", dataset, model_name, text_column_name, EmptyDict, "")
        /\ result' = [NoResult EXCEPT
                        !.outcome = IF enc.raised THEN "raised" ELSE "returned",
                        !.dataset = enc.encoded_dataset,
                        !.tokenizer = enc.tokenizer,
                        !.encode_calls = << [dataset |-> dataset, model_name |-> model_name,
                                             text_column_name |-> text_column_name] >>,
                        !.encode_returns = IF enc.raised THEN << >>
                                           ELSE << [encoded_dataset |-> enc.encoded_dataset,
                                                    tokenizer |-> enc.tokenizer] >>,
                        !.loads = enc.loads]
    /\ kwargs' = EmptyDict
    /\ UNCHANGED <<kwargs_args_sup, kwargs_args, history>>

set_default_args(dataset, model_name, kw, load_outcomes) ==
    /\ Len(history) < MaxCalls
    /\ \E r \in {SetDefaultArgs(kwargs_args_sup, kwargs_args, dataset, model_name,
                               kw, load_outcomes)} :
        /\ kwargs_args_sup' = r.sup
        /\ kwargs_args' = r.full
        /\ kwargs' = r.kwargs
        /\ call' = Call("set_default_args", dataset, model_name, "", kw, "")
        /\ result' = [NoResult EXCEPT
                        !.outcome = r.outcome, !.dataset = r.dataset,
                        !.profile = r.profile, !.warnings = r.warnings,
                        !.encode_calls = r.encode_calls,
                        !.encode_returns = r.encode_returns, !.loads = r.loads]
        /\ history' = Append(history, [overrides |-> GivenOverrides(kw),
                                       encoder_raised |-> (r.outcome = "raised")])

\* Variant of get_default_ta_sup for two profiles that are one dict: the entry
\* shows in both.
get_default_ta_sup_aliased(logging_dir) ==
    /\ kwargs_args_sup' = SetLoggingDir(kwargs_args_sup, logging_dir)
    /\ kwargs_args' = SetLoggingDir(kwargs_args, logging_dir)
    /\ call' = Call("get_default_ta_sup", Unbound, "", "", EmptyDict, logging_dir)
    /\ result' = [NoResult EXCEPT !.arguments = TrainingArguments(kwargs_args_sup')]
    /\ kwargs' = EmptyDict
    /\ UNCHANGED history

get_default_ta_sup(logging_dir) ==
    /\ kwargs_args_sup' = SetLoggingDir(kwargs_args_sup, logging_dir)
    /\ call' = Call("get_default_ta_sup", Unbound, "", "", EmptyDict, logging_dir)
    /\ result' = [NoResult EXCEPT !.arguments = TrainingArguments(kwargs_args_sup')]
    /\ kwargs' = EmptyDict
    /\ UNCHANGED <<kwargs_args, history>>

get_default_ta(logging_dir) ==
    /\ kwargs_args' = SetLoggingDir(kwargs_args, logging_dir)
    /\ call' = Call("get_default_ta", Unbound, "", "", EmptyDict, logging_dir)
    /\ result' = [NoResult EXCEPT !.arguments = TrainingArguments(kwargs_args')]
    /\ kwargs' = EmptyDict
    /\ UNCHANGED <<kwargs_args_sup, history>>

Next ==
    \/ \E dataset \in Datasets, model_name \in ModelNames,
          text_column_name \in TextColumnNames, load_outcomes \in LoadOutcomes :
            encode(dataset, model_name, text_column_name, load_outcomes)
    \/ \E dataset \in Datasets, model_name \in ModelNames, kw \in KwargsInputs :
          \E load_outcomes \in LoadOutcomesOf(kw) :
            set_default_args(dataset, model_name, kw, load_outcomes)
    \/ \E logging_dir \in LoggingDirs : get_default_ta_sup(logging_dir)
    \/ \E logging_dir \in LoggingDirs : get_default_ta(logging_dir)

Spec == Init /\ [][Next]_vars

-----------------------------------------------------------------------------
(* Vocabulary of the properties *)

IsSetCall == call.op = "set_default_args"

\* kw holds a mapping (a dict) under key.
GivesMapping(kw, key) == key \in DOMAIN kw /\ kw[key].type = "dict"

\* kw holds something that is not a mapping under key.
GivesNonMapping(kw, key) == key \in DOMAIN kw /\ kw[key].type # "dict"

\* after is before with exactly the entries of o replaced or added.
MergedExactly(before, after, o) ==
    /\ DOMAIN after = (DOMAIN before) \cup (DOMAIN o)
    /\ \A k \in DOMAIN after :
          after[k] = IF k \in DOMAIN o THEN o[k] ELSE before[k]

\* after is before but for the entry under key, which holds v.
OnlyEntrySet(before, after, key, v) ==
    /\ DOMAIN after = (DOMAIN before) \cup {key}
    /\ after[key] = v
    /\ \A k \in (DOMAIN before) \ {key} : after[k] = before[k]

\* The encoder ran in the last operation (a direct call of encode, or a
\* set_default_args call that reached it).
EncoderRan == result.encode_calls # << >>

\* The text column a set_default_args call asks for.
ColumnAsked(kw) ==
    IF "text_column_name" \in DOMAIN kw THEN kw["text_column_name"].atom ELSE "sentence"

\* The dataset as mapped with the fallback tokenizer on the given column.
FallbackEncoded(dataset, column) ==
    [name |-> dataset.name, bound |-> TRUE, mapped |-> TRUE,
     tokenizer |-> [pretrained |-> "cardiffnlp/twitter-xlm-roberta-base-sentiment",
                    model_max_length |-> "512"],
     column |-> column, truncation |-> TRUE, batched |-> TRUE]

-----------------------------------------------------------------------------
(* C1 *)

\* C1: a set_default_args call whose kwargs holds a 'tokenizer' entry completes
\* normally: it emits the warning only, the trainer-accepted keys are back in
\* kwargs, and it returns the (dataset, semisupervised profile) pair without
\* raising.  The code reaches `return encoded_dataset, ...` with encoded_dataset
\* never assigned, so this statement is violated.
C1_TokenizerCallCompletes ==
    (IsSetCall /\ "tokenizer" \in DOMAIN call.kwargs) =>
        /\ result.outcome = "returned"
        /\ result.warnings = << TokenizerWarning >>
        /\ result.profile = "self.kwargs_args"
        /\ \A k \in (DOMAIN call.kwargs) \cap TrainerParams : k \in DOMAIN kwargs

-----------------------------------------------------------------------------
(* C2 *)

\* C2: a set_default_args call whose kwargs holds no 'tokenizer' invokes the
\* encoder exactly once, with the given dataset, the model name and the text
\* column taken from kwargs['text_column_name'] ('sentence' when absent), and
\* that key is no longer in kwargs; when the encoder returns, the dataset the
\* call returns is the encoder's output and the encoder's tokenizer is under
\* 'tokenizer' in kwargs after the final merge.
C2_EncoderInvokedOnce ==
    (IsSetCall /\ "tokenizer" \notin DOMAIN call.kwargs) =>
        /\ result.encode_calls =
              << [dataset |-> call.dataset, model_name |-> call.model_name,
                  text_column_name |-> ColumnAsked(call.kwargs)] >>
        /\ "text_column_name" \notin DOMAIN kwargs
        /\ result.warnings = << >>
        /\ result.outcome \in {"returned", "raised"}
        /\ (result.outcome = "raised") <=> (result.encode_returns = << >>)
        /\ result.encode_returns # << >> =>
              /\ Len(result.encode_returns) = 1
              /\ result.dataset = result.encode_returns[1].encoded_dataset
              /\ result.dataset.mapped
              /\ result.dataset.column = ColumnAsked(call.kwargs)
              /\ "tokenizer" \in DOMAIN kwargs
              /\ kwargs["tokenizer"] = result.encode_returns[1].tokenizer
              /\ result.dataset.tokenizer = kwargs["tokenizer"].items

\* A call without tokenizer that names its text column returned the encoded dataset.
C2_Witness ==
    /\ IsSetCall
    /\ "tokenizer" \notin DOMAIN call.kwargs
    /\ "text_column_name" \in DOMAIN call.kwargs
    /\ result.outcome = "returned"
    /\ result.dataset.column = "text"
    /\ kwargs["tokenizer"].items["pretrained"] = call.model_name

-----------------------------------------------------------------------------
(* C3 *)

\* C3: a set_default_args call whose kwargs holds a 'tokenizer' emits the
\* warning, never invokes the encoder (no tokenizer load, no dataset map), and
\* leaves the caller's tokenizer under 'tokenizer' in kwargs.
C3_TokenizerSkipsEncoder ==
    (IsSetCall /\ "tokenizer" \in DOMAIN call.kwargs) =>
        /\ result.warnings = << TokenizerWarning >>
        /\ result.encode_calls = << >>
        /\ result.loads = << >>
        /\ ~result.dataset.mapped
        /\ "tokenizer" \in DOMAIN kwargs
        /\ kwargs["tokenizer"] = call.kwargs["tokenizer"]

\* A call with a tokenizer was made; it got as far as the return statement.
C3_Witness ==
    /\ IsSetCall
    /\ "tokenizer" \in DOMAIN call.kwargs
    /\ result.outcome = "UnboundLocalError"
    /\ kwargs["tokenizer"] = UserTokenizer

-----------------------------------------------------------------------------
(* C4 *)

\* No 'args_ta' override mapping passed so far contains 'save_steps'.
NoSaveStepsOverride ==
    \A i \in 1..Len(history) :
        "args_ta" \in DOMAIN history[i].overrides =>
            "save_steps" \notin DOMAIN history[i].overrides["args_ta"]

\* C4: as long as no 'args_ta' override mapping contained 'save_steps', the
\* semisupervised profile's 'save_steps' is infinite, and the arguments
\* get_default_ta builds have an infinite save_steps; 'args_ta_sup' overrides
\* and logging_dir settings do not change it.
C4_SaveStepsStayInfinite ==
    NoSaveStepsOverride =>
        /\ "save_steps" \in DOMAIN kwargs_args
        /\ kwargs_args["save_steps"] = "inf"
        /\ call.op = "get_default_ta" =>
              /\ "save_steps" \in DOMAIN result.arguments
              /\ result.arguments["save_steps"] = "inf"

\* get_default_ta built arguments after an 'args_ta_sup' override that sets
\* save_steps and an 'args_ta' override that does not.
C4_Witness ==
    /\ NoSaveStepsOverride
    /\ call.op = "get_default_ta"
    /\ result.arguments["logging_dir"] = "logs"
    /\ "save_steps" \in DOMAIN kwargs_args_sup
    /\ kwargs_args_sup["save_steps"] = "500"
    /\ kwargs_args["learning_rate"] = "1e-4"

-----------------------------------------------------------------------------
(* C5 *)

\* C5: a completed set_default_args whose kwargs['args_ta_sup'] is a mapping
\* leaves the supervised profile equal to its value before the call with
\* exactly the override's keys replaced or added, and 'args_ta_sup' is no
\* longer a key of the caller's kwargs; the same for 'args_ta' and the
\* semisupervised profile.
C5_OverrideMergedAndRemoved ==
    (IsSetCall /\ result.outcome = "returned") =>
        /\ GivesMapping(call.kwargs, "args_ta_sup") =>
              /\ MergedExactly(call.kwargs_args_sup, kwargs_args_sup,
                               call.kwargs["args_ta_sup"].items)
              /\ "args_ta_sup" \notin DOMAIN kwargs
        /\ GivesMapping(call.kwargs, "args_ta") =>
              /\ MergedExactly(call.kwargs_args, kwargs_args,
                               call.kwargs["args_ta"].items)
              /\ "args_ta" \notin DOMAIN kwargs

\* A completed call replaced learning_rate and added save_steps in the
\* supervised profile, and replaced both in the semisupervised one.
C5_Witness ==
    /\ IsSetCall
    /\ result.outcome = "returned"
    /\ GivesMapping(call.kwargs, "args_ta_sup")
    /\ GivesMapping(call.kwargs, "args_ta")
    /\ "save_steps" \notin DOMAIN call.kwargs_args_sup
    /\ "save_steps" \in DOMAIN kwargs_args_sup
    /\ kwargs_args_sup["learning_rate"] = "3e-5"
    /\ kwargs_args_sup["output_dir"] = "glue"
    /\ kwargs_args["save_steps"] = "500"
    /\ DOMAIN kwargs = {"compute_metrics", "tokenizer"}

-----------------------------------------------------------------------------
(* C6 *)

\* C6: a set_default_args call whose kwargs holds neither 'args_ta' nor
\* 'args_ta_sup' leaves both profiles exactly as they were, whatever other
\* keys kwargs holds and whichever tokenizer branch is taken.
C6_NoOverrideNoChange ==
    (IsSetCall /\ "args_ta" \notin DOMAIN call.kwargs
               /\ "args_ta_sup" \notin DOMAIN call.kwargs) =>
        /\ kwargs_args_sup = call.kwargs_args_sup
        /\ kwargs_args = call.kwargs_args

\* A call without overrides, in the tokenizer branch, on profiles that an
\* earlier call had changed.
C6_Witness ==
    /\ IsSetCall
    /\ "args_ta" \notin DOMAIN call.kwargs
    /\ "args_ta_sup" \notin DOMAIN call.kwargs
    /\ "tokenizer" \in DOMAIN call.kwargs
    /\ "text_column_name" \in DOMAIN call.kwargs
    /\ Len(history) = 2
    /\ kwargs_args_sup["learning_rate"] = "1e-4"
    /\ kwargs_args["save_steps"] = "500"

-----------------------------------------------------------------------------
(* C7 *)

Max(S) == CHOOSE x \in S : \A y \in S : y <= x

\* The set_default_args calls so far, by position, that passed a mapping under
\* key and that satisfy counted.
CallsGiving(key, counted(_)) ==
    {i \in 1..Len(history) : key \in DOMAIN history[i].overrides /\ counted(i)}

\* profile, but for its logging_dir entry (which get_default_ta* set), is
\* defaults updated by the overrides under key of the calls in I, in call
\* order: a key holds the value of the last of those calls that mentions it,
\* or its default when none does.
AccumulatedFrom(profile, defaults, key, I) ==
    LET mentions(k) == {i \in I : k \in DOMAIN history[i].overrides[key]}
        keys == (DOMAIN defaults) \cup
                UNION {DOMAIN history[i].overrides[key] : i \in I}
    IN  /\ (DOMAIN profile) \ {"logging_dir"} = keys
        /\ \A k \in keys :
              profile[k] = IF mentions(k) = {} THEN defaults[k]
                           ELSE history[Max(mentions(k))].overrides[key][k]

AnyCall(i) == TRUE

EncoderDidNotRaise(i) == ~history[i].encoder_raised

\* C7 as stated: after any sequence of set_default_args calls, each profile
\* equals the initial defaults updated by the override mappings of all the
\* calls, in call order.
C7_AllOverridesAccumulate ==
    /\ AccumulatedFrom(kwargs_args_sup, InitSup, "args_ta_sup",
                       CallsGiving("args_ta_sup", AnyCall))
    /\ AccumulatedFrom(kwargs_args, InitFull, "args_ta",
                       CallsGiving("args_ta", AnyCall))

\* C7 as amended: after any sequence of set_default_args calls, each profile
\* equals the initial defaults updated, in call order, by the override mappings
\* of the calls whose encoder did not raise (a later override wins on a shared
\* key, a key set earlier persists, no call resets a profile); a call whose
\* encoder raised merges nothing.
C7_OverridesAccumulate ==
    /\ AccumulatedFrom(kwargs_args_sup, InitSup, "args_ta_sup",
                       CallsGiving("args_ta_sup", EncoderDidNotRaise))
    /\ AccumulatedFrom(kwargs_args, InitFull, "args_ta",
                       CallsGiving("args_ta", EncoderDidNotRaise))

\* Two calls overrode the supervised profile: the second won on learning_rate,
\* the save_steps the first had set persisted.
C7_Witness ==
    /\ Len(history) = 2
    /\ history[1].overrides = [args_ta_sup |-> [learning_rate |-> "3e-5", save_steps |-> "500"]]
    /\ history[2].overrides = [args_ta_sup |-> [learning_rate |-> "1e-4"]]
    /\ ~history[1].encoder_raised
    /\ ~history[2].encoder_raised
    /\ kwargs_args_sup["learning_rate"] = "1e-4"
    /\ kwargs_args_sup["save_steps"] = "500"

-----------------------------------------------------------------------------
(* C8 *)

\* C8 as stated: when the tokenizer load for the requested model fails, no
\* exception reaches the caller: encode returns the dataset mapped with the
\* fallback tokenizer, together with that tokenizer; and when the first load
\* succeeds the fallback is never loaded.
C8_LoadFailureNeverRaises ==
    EncoderRan =>
        /\ ~result.loads[1].returned =>
              /\ result.outcome = "returned"
              /\ result.encode_returns =
                    << [encoded_dataset |->
                            FallbackEncoded(result.encode_calls[1].dataset,
                                            result.encode_calls[1].text_column_name),
                        tokenizer |-> FallbackTokenizer] >>
        /\ result.loads[1].returned => Len(result.loads) = 1

\* C8 as amended: the first load is of the requested model; when it succeeds no
\* other load is made; when it fails the fallback tokenizer (max length 512) is
\* loaded, and then encode returns the dataset mapped with the fallback
\* tokenizer together with that tokenizer if that second load succeeds, while a
\* failure of the second load reaches the caller.
C8_FallbackOnLoadFailure ==
    EncoderRan =>
        /\ Len(result.loads) >= 1
        /\ result.loads[1].pretrained = result.encode_calls[1].model_name
        /\ result.loads[1].use_fast = "True"
        /\ result.loads[1].returned =>
              /\ Len(result.loads) = 1
              /\ result.outcome = "returned"
              /\ Len(result.encode_returns) = 1
              /\ result.encode_returns[1].tokenizer.items["pretrained"]
                    = result.encode_calls[1].model_name
        /\ ~result.loads[1].returned =>
              /\ Len(result.loads) = 2
              /\ result.loads[2].pretrained = "cardiffnlp/twitter-xlm-roberta-base-sentiment"
              /\ result.loads[2].model_max_length = "512"
              /\ result.loads[2].returned =>
                    /\ result.outcome = "returned"
                    /\ result.encode_returns =
                          << [encoded_dataset |->
                                  FallbackEncoded(result.encode_calls[1].dataset,
                                                  result.encode_calls[1].text_column_name),
                              tokenizer |-> FallbackTokenizer] >>
              /\ ~result.loads[2].returned =>
                    /\ result.outcome = "raised"
                    /\ result.encode_returns = << >>

\* A direct call of encode whose first load failed returned the fallback tokenizer.
C8_Witness ==
    /\ call.op = "encode"
    /\ Len(result.loads) = 2
    /\ ~result.loads[1].returned
    /\ result.loads[2].returned
    /\ result.outcome = "returned"
    /\ result.tokenizer.items["model_max_length"] = "512"
    /\ result.dataset.mapped

-----------------------------------------------------------------------------
(* C9 *)

\* The outcome of a set_default_args call as the tokenizer branch alone decides it.
OutcomeOfBranch ==
    IF "tokenizer" \in DOMAIN call.kwargs THEN "UnboundLocalError"
    ELSE IF \A i \in 1..Len(result.loads) : ~result.loads[i].returned THEN "raised"
    ELSE "returned"

\* C9: a value under 'args_ta_sup' or 'args_ta' that is not a mapping is ignored
\* silently: it produces no error and no warning (outcome and warnings are those
\* of the tokenizer branch), its profile does not change, neither profile
\* changes when no mapping is passed at all, and the value is left under its key
\* in the caller's kwargs.
C9_NonMappingIgnored ==
    (IsSetCall /\ (GivesNonMapping(call.kwargs, "args_ta_sup")
                   \/ GivesNonMapping(call.kwargs, "args_ta"))) =>
        /\ result.outcome = OutcomeOfBranch
        /\ result.warnings = IF "tokenizer" \in DOMAIN call.kwargs
                             THEN << TokenizerWarning >> ELSE << >>
        /\ GivesNonMapping(call.kwargs, "args_ta_sup") =>
              /\ kwargs_args_sup = call.kwargs_args_sup
              /\ "args_ta_sup" \in DOMAIN kwargs
              /\ kwargs["args_ta_sup"] = call.kwargs["args_ta_sup"]
        /\ GivesNonMapping(call.kwargs, "args_ta") =>
              /\ kwargs_args = call.kwargs_args
              /\ "args_ta" \in DOMAIN kwargs
              /\ kwargs["args_ta"] = call.kwargs["args_ta"]
        /\ (~GivesMapping(call.kwargs, "args_ta_sup")
            /\ ~GivesMapping(call.kwargs, "args_ta")) =>
              /\ kwargs_args_sup = call.kwargs_args_sup
              /\ kwargs_args = call.kwargs_args

\* A completed call passed a non-mapping under both keys.
C9_Witness ==
    /\ IsSetCall
    /\ GivesNonMapping(call.kwargs, "args_ta_sup")
    /\ GivesNonMapping(call.kwargs, "args_ta")
    /\ result.outcome = "returned"
    /\ kwargs["args_ta_sup"].atom = "not a dict"
    /\ kwargs["args_ta"].atom = "not a dict"

-----------------------------------------------------------------------------
(* C10 *)

\* C10: the profiles are not aliased.  A set_default_args call that passes no
\* mapping under 'args_ta' leaves the semisupervised profile unchanged whatever
\* it passes under 'args_ta_sup', and conversely; get_default_ta_sup changes
\* nothing but the 'logging_dir' entry of the supervised profile, and
\* get_default_ta nothing but the 'logging_dir' entry of the semisupervised one.
C10_ProfilesIndependent ==
    /\ (IsSetCall /\ ~GivesMapping(call.kwargs, "args_ta")) =>
          kwargs_args = call.kwargs_args
    /\ (IsSetCall /\ ~GivesMapping(call.kwargs, "args_ta_sup")) =>
          kwargs_args_sup = call.kwargs_args_sup
    /\ call.op = "get_default_ta_sup" =>
          /\ kwargs_args = call.kwargs_args
          /\ OnlyEntrySet(call.kwargs_args_sup, kwargs_args_sup,
                          "logging_dir", call.logging_dir)
    /\ call.op = "get_default_ta" =>
          /\ kwargs_args_sup = call.kwargs_args_sup
          /\ OnlyEntrySet(call.kwargs_args, kwargs_args,
                          "logging_dir", call.logging_dir)

\* get_default_ta_sup set logging_dir in the supervised profile, which an
\* override had changed before, and the semisupervised profile has none.
C10_Witness ==
    /\ call.op = "get_default_ta_sup"
    /\ "logging_dir" \notin DOMAIN call.kwargs_args_sup
    /\ kwargs_args_sup["logging_dir"] = "logs"
    /\ kwargs_args_sup["learning_rate"] = "1e-4"
    /\ "logging_dir" \notin DOMAIN kwargs_args
    /\ kwargs_args["learning_rate"] = "2e-5"

====
